---- MODULE Spec2Model ----
(***************************************************************************)
(* The job queue of server/services/processing-queue.service.ts (class     *)
(* ProcessingQueue) with the processing_jobs and datasets tables it        *)
(* writes.                                                                 *)
(*                                                                         *)
(* Node runs the queue on one thread: code between two awaits is atomic.   *)
(* A step of the model is the completion of one awaited call followed by   *)
(* the synchronous code up to the next await.  Awaited calls that change   *)
(* nothing another step reads (the selects of the job and of its data      *)
(* source, downloadFile, uploadFile) are folded into the step of the next  *)
(* awaited write.  Statements issued by different async functions go       *)
(* through a pool of connections (server/db/index.ts, max 10) and          *)
(* complete in any order.                                                  *)
(*                                                                         *)
(* Of a job row the model keeps the columns the queue writes and the       *)
(* properties below read: status, progress, completedAt, errorMessage;     *)
(* of a dataset row, the job it originates from.                           *)
(***************************************************************************)
EXTENDS Integers, Sequences, FiniteSets, Bags, TLC

\* ---------------------------------------------------------------- bounds
NumJobs == 3        \* rows of processing_jobs
MaxTasks == 3       \* processJob launches explored
MaxEnqueues == 2    \* enqueue calls explored
MaxEnqueueJob == 1  \* enqueue is called for the jobs 1..MaxEnqueueJob
MaxCancels == 1     \* cancel calls that find a controller
MaxCancelJob == 1   \* cancel is called for the jobs 1..MaxCancelJob
MaxRecords == 2     \* records of a decoded source file
BatchSize == 1      \* config.batchSize || 100, scaled down
MaxApiCalls == 2    \* requests to the jobs controller and data source changes
MaxRefused == 1     \* cancel calls that find no controller
LogCap == 3         \* the cap of a job's log, 1000 lines, scaled down
MaxAppends == 5     \* addLog calls explored
NumLogJobs == 2     \* job ids that addLog and getLogs are called with
MaxPos == 3         \* length of the text detectPII is given
MaxMatches == 3     \* raw matches the detection sources produce
MaxConditions == 2  \* entries of config.filterConditions
MaxCounted == 3     \* records of the source file of the counted run
MaxPushed == 2      \* matches of a custom pattern that are kept track of
MaxLabel == 2       \* length of a replacement
MaxLoopEnqueues == 4 \* overlapping enqueue calls around the loop
NumMapValues == 2   \* values a field of a mapped record may have

\* ------------------------------------------------------ program constants
concurrency == 2

JobIds == 1..NumJobs
Terminal == {"completed", "failed", "cancelled"}

\* messages of the errors the stages of processJob throw
FetchError == "File not found"
DecodeError == "Unsupported format"
EncodeError == "Unsupported output format"
StoreError == "Upload failed"
CancelError == "Job cancelled"
IOErrors == {FetchError, DecodeError, EncodeError, StoreError}

VARIABLES
    rows,          \* processing_jobs table: job id -> row
    datasets,      \* datasets table: the bag of the rows inserted
    isProcessing,  \* ProcessingQueue.isProcessing
    jobLogs,       \* ProcessingQueue.jobLogs: the job ids that have a log
    loop,          \* position of the processQueue loop
    tasks,         \* the processJob invocations that have not ended (a bag)
    launched,      \* processJob invocations started so far
    cancels,       \* job id -> cancel calls whose status write is in flight
    nEnqueue,      \* enqueue calls made
    nCancel,       \* cancel calls that found a controller
    cancelReturned,\* jobs for which a cancel call has returned true
    sources,       \* data_sources table: job id -> status of its data source
    cancelRefused, \* the job ids of the cancel calls that returned false
    nApi,          \* requests handled by the jobs controller
    logLines,      \* ProcessingQueue.jobLogs in full: job id -> its lines
    appended,      \* every line passed to addLog, per job, in order
    allMatches,    \* detectPII: the raw matches of the detection sources
    piiResult,     \* detectPII: the matches returned
    filterInput,   \* checkFilters: the record and the conditions
    filterResult,  \* checkFilters: the value returned
    mapInput,      \* applyFieldMappings: the record and the mappings
    mapResult,     \* applyFieldMappings: the record returned
    countRun,      \* one processJob run and the counts it persists
    customPattern, \* a custom pattern: its flags and what it matches in the text
    scan,          \* the exec loop of detectPII over the custom pattern
    redactInput,   \* redaction: the text and the accepted matches
    redactResult,  \* redaction: the redacted text
    loopRun        \* the processQueue invocations and the enqueue calls around them

\* the variables of the requests around the queue and of the pure functions
apiVars == <<sources, cancelRefused, nApi>>
corePure == <<logLines, appended, allMatches, piiResult, filterInput,
              filterResult>>
mapVars == <<mapInput, mapResult>>
countVars == <<countRun>>
customVars == <<customPattern, scan>>
redactVars == <<redactInput, redactResult>>
loopVars == <<loopRun>>
extVars == <<mapVars, countVars, customVars, redactVars, loopVars>>
pureVars == <<logLines, appended, allMatches, piiResult, filterInput,
              filterResult, extVars>>

vars == <<rows, datasets, isProcessing, jobLogs, loop, tasks, launched,
          cancels, nEnqueue, nCancel, cancelReturned, apiVars, pureVars>>

\* ------------------------------------------------------------- helpers
Min(a, b) == IF a < b THEN a ELSE b

\* Math.round(x / y * 100) for x >= 0, y > 0: halves round up
RoundPercent(x, y) == (200 * x + y) \div (2 * y)

\* a row as the submission handler inserts it: the column defaults
NewRow ==
    [status |-> "pending", progress |-> 0, completedAt |-> FALSE,
     errorMessage |-> "null"]

\* the place of an id that no row of processing_jobs has
AbsentRow ==
    [status |-> "absent", progress |-> 0, completedAt |-> FALSE,
     errorMessage |-> "null"]

\* processJob up to its first await: a controller is created and stored
\* in activeJobs (registered), and the write of status 'processing' is
\* issued.  cancelAt is the batch the task was in when cancel was called
\* for its job (0: not called while in a batch).
NewTask(j) ==
    [job |-> j, pc |-> "start", aborted |-> FALSE, registered |-> TRUE,
     total |-> 0, i |-> 0, err |-> "null", cancelAt |-> 0]

Running == BagToSet(tasks)

\* the batch a task awaiting its progress write is in
BatchOf(r) == (r.i \div BatchSize) + 1

\* ProcessingQueue.activeJobs: the keys of the map.  An entry holds the
\* controller of the registered task of the job.
activeJobs == {r.job : r \in {x \in Running : x.registered}}

\* the bag b with one copy of task r replaced by task r2
Replace(b, r, r2) == (b (-) SetToBag({r})) (+) SetToBag({r2})

\* activeJobs.delete(j) / activeJobs.set(j, ...): the entries of the jobs
\* in S no longer hold the controller of any task of bag b
Unregistered(r, S) ==
    IF r.job \in S THEN [r EXCEPT !.registered = FALSE] ELSE r
Unregister(b, S) == BagOfAll(LAMBDA r : Unregistered(r, S), b)

\* addLog: the job id has a log from its first line on
addLog(logs, j) == logs \cup {j}

\* a row of processing_jobs has id j
Exists(j) == rows[j].status # "absent"

\* the number of dataset rows that name job j as their origin
DatasetsOf(j) == CopiesIn([processingJobId |-> j], datasets)

\* ---------------------------------------------------------------- Init
\* no request other than enqueue and cancel is made: every data source is
\* ready, as it was when the submission handler created the job
ApiIdle ==
    /\ sources = [j \in JobIds |-> "ready"]
    /\ cancelRefused = <<>>
    /\ nApi = 0

\* the pure functions are not called
LogsIdle == logLines = <<>> /\ appended = <<>>
PiiIdle == allMatches = <<>> /\ piiResult = [done |-> FALSE, matches |-> <<>>]
FiltersIdle ==
    /\ filterInput = [record |-> <<>>, conditions |-> <<>>]
    /\ filterResult = [done |-> FALSE, kept |-> FALSE]
MapIdle ==
    /\ mapInput = [record |-> <<>>, mappings |-> <<>>]
    /\ mapResult = [done |-> FALSE, record |-> <<>>]
CountIdle == countRun = [pc |-> "idle"]
CustomIdle ==
    /\ customPattern = [global |-> FALSE, matchAt |-> <<>>]
    /\ scan = [pc |-> "idle", lastIndex |-> 0, pushed |-> <<>>]
RedactIdle ==
    /\ redactInput = [text |-> <<>>, matches |-> <<>>]
    /\ redactResult = [done |-> FALSE, redactedText |-> <<>>]
LoopIdle == loopRun = [pc |-> "idle"]
ExtIdle == MapIdle /\ CountIdle /\ CustomIdle /\ RedactIdle /\ LoopIdle
PureIdle == LogsIdle /\ PiiIdle /\ FiltersIdle /\ ExtIdle

Init ==
    /\ rows = [j \in JobIds |-> NewRow]
    /\ datasets = EmptyBag
    /\ isProcessing = FALSE
    /\ jobLogs = {}
    /\ loop = [pc |-> "idle", limit |-> 0, pendingJobs |-> {}]
    /\ tasks = EmptyBag
    /\ launched = 0
    /\ cancels = [j \in JobIds |-> 0]
    /\ nEnqueue = 0
    /\ nCancel = 0
    /\ cancelReturned = {}
    /\ ApiIdle
    /\ PureIdle

\* ------------------------------------------------------- processQueue
\* top of the while loop, up to the next await
LoopTop(active) ==
    LET availableSlots == concurrency - active
    IN IF availableSlots <= 0
       THEN [pc |-> "sleep1000", limit |-> 0, pendingJobs |-> {}]
       ELSE [pc |-> "query", limit |-> availableSlots, pendingJobs |-> {}]

\* the sleep(1000) of a full pool ends
SleepFull ==
    /\ loop.pc = "sleep1000"
    /\ loop' = LoopTop(Cardinality(activeJobs))
    /\ UNCHANGED <<rows, datasets, isProcessing, jobLogs, tasks, launched,
                   cancels, nEnqueue, nCancel, cancelReturned,
                   apiVars, pureVars>>

\* the sleep(100) after a round of launches ends
SleepLaunched ==
    /\ loop.pc = "sleep100"
    /\ loop' = LoopTop(Cardinality(activeJobs))
    /\ UNCHANGED <<rows, datasets, isProcessing, jobLogs, tasks, launched,
                   cancels, nEnqueue, nCancel, cancelReturned,
                   apiVars, pureVars>>

PendingIds == {j \in JobIds : rows[j].status = "pending"}

\* the rows a SELECT ... WHERE status = 'pending' LIMIT n may return: the
\* statement has no ORDER BY, so any n of the pending rows
PendingQueryResults(n) ==
    {S \in SUBSET PendingIds : Cardinality(S) = Min(n, Cardinality(PendingIds))}

\* the select of the pending jobs completes
QueryPending ==
    /\ loop.pc = "query"
    /\ \E S \in PendingQueryResults(loop.limit) :
        loop' = [loop EXCEPT !.pc = "launch", !.pendingJobs = S]
    /\ UNCHANGED <<rows, datasets, isProcessing, jobLogs, tasks, launched,
                   cancels, nEnqueue, nCancel, cancelReturned,
                   apiVars, pureVars>>

\* the loop continues with an empty result: it ends, the flag is reset
LoopEnds ==
    /\ loop.pc = "launch"
    /\ loop.pendingJobs = {}
    /\ isProcessing' = FALSE
    /\ loop' = [pc |-> "idle", limit |-> 0, pendingJobs |-> {}]
    /\ UNCHANGED <<rows, datasets, jobLogs, tasks, launched, cancels,
                   nEnqueue, nCancel, cancelReturned,
                   apiVars, pureVars>>

\* the loop continues with the rows found: one processJob is started per
\* row, each storing its controller under the job id
Launch ==
    /\ loop.pc = "launch"
    /\ loop.pendingJobs # {}
    /\ launched + Cardinality(loop.pendingJobs) <= MaxTasks
    /\ launched' = launched + Cardinality(loop.pendingJobs)
    /\ tasks' = Unregister(tasks, loop.pendingJobs)
                   (+) SetToBag({NewTask(j) : j \in loop.pendingJobs})
    /\ loop' = [pc |-> "sleep100", limit |-> 0, pendingJobs |-> {}]
    /\ UNCHANGED <<rows, datasets, isProcessing, jobLogs, cancels, nEnqueue,
                   nCancel, cancelReturned,
                   apiVars, pureVars>>

\* ------------------------------------------------------------ enqueue
\* enqueue(jobId): the write of status 'pending' completes (it changes the
\* row with this id, if there is one), a line is logged and processQueue
\* is called, which returns at once when a loop is running
Enqueue(j) ==
    /\ nEnqueue < MaxEnqueues
    /\ nEnqueue' = nEnqueue + 1
    /\ rows' = [rows EXCEPT ![j].status = IF Exists(j) THEN "pending" ELSE @]
    /\ jobLogs' = addLog(jobLogs, j)
    /\ IF isProcessing
       THEN UNCHANGED <<isProcessing, loop>>
       ELSE /\ isProcessing' = TRUE
            /\ loop' = LoopTop(Cardinality(activeJobs))
    /\ UNCHANGED <<datasets, tasks, launched, cancels, nCancel,
                   cancelReturned,
                   apiVars, pureVars>>

\* ------------------------------------------------------------- cancel
\* the places where a task still has a check of its signal ahead
ChecksAhead == {"start", "download", "progress"}

\* what a cancel(j) call does to task r: the task whose controller is
\* stored under j is aborted and its entry deleted (the signal of a task
\* past its last check is never read again and stays as it is)
Signalled(r, j) ==
    IF r.job = j
    THEN [r EXCEPT !.aborted = @ \/ (r.registered /\ r.pc \in ChecksAhead),
                   !.registered = FALSE,
                   !.cancelAt = IF r.pc = "progress" /\ @ = 0
                                THEN BatchOf(r) ELSE @]
    ELSE r

\* cancel(jobId) with a stored controller, up to its await: abort, delete
\* the entry, issue the write of status 'cancelled'
CancelActive(j) ==
    /\ j \in activeJobs
    /\ nCancel < MaxCancels
    /\ nCancel' = nCancel + 1
    /\ tasks' = BagOfAll(LAMBDA r : Signalled(r, j), tasks)
    /\ cancels' = [cancels EXCEPT ![j] = @ + 1]
    /\ UNCHANGED <<rows, datasets, isProcessing, jobLogs, loop, launched,
                   nEnqueue, cancelReturned,
                   apiVars, pureVars>>

\* the status write of a cancel call completes; the call logs, emits
\* 'cancelled' and returns true
CancelWrite(j) ==
    /\ cancels[j] > 0
    /\ cancels' = [cancels EXCEPT ![j] = @ - 1]
    /\ rows' = [rows EXCEPT ![j].status = "cancelled", ![j].completedAt = TRUE]
    /\ jobLogs' = addLog(jobLogs, j)
    /\ cancelReturned' = cancelReturned \cup {j}
    /\ UNCHANGED <<datasets, isProcessing, loop, tasks, launched, nEnqueue,
                   nCancel,
                   apiVars, pureVars>>

\* --------------------------------------------------------- processJob
\* a throw inside the try block: control is in the catch block, whose
\* write of status 'failed' is issued; of the locals only the error is
\* still used (cancelAt is kept with the error of an observed cancellation)
Thrown(r, e) ==
    [NewTask(r.job) EXCEPT !.pc = "catch", !.err = e,
                           !.registered = r.registered,
                           !.cancelAt = IF e = CancelError THEN r.cancelAt ELSE 0]

\* after the loop the records are encoded and the upload is issued; of
\* the locals only processedRecords is still used
AwaitUpload(r) == [NewTask(r.job) EXCEPT !.pc = "upload",
                                         !.registered = r.registered]

\* the synchronous code from the head of the batch loop to the next await,
\* as the set of tasks it may end in: a remaining batch is transformed
\* unless the signal is aborted; after the last batch the encoding either
\* throws or the upload is issued
LoopHead(r) ==
    IF r.i < r.total
    THEN IF r.aborted
         THEN {Thrown(r, CancelError)}
         ELSE {[r EXCEPT !.pc = "progress"]}
    ELSE {AwaitUpload(r), Thrown(r, EncodeError)}

\* finally: the task ends and activeJobs.delete(jobId) removes the entry
\* of the job, whichever task stored it
Finally(r) == Unregister(tasks (-) SetToBag({r}), {r.job})

\* the write the catch block issues
FailedRow(row, e) ==
    [row EXCEPT !.status = "failed", !.completedAt = TRUE, !.errorMessage = e]

\* the write of status 'processing' completes; the selects of the job and
\* its data source and then the download are issued
StartWrite(r) ==
    /\ r.pc = "start"
    /\ rows' = [rows EXCEPT ![r.job].status = "processing",
                            ![r.job].progress = 0]
    /\ jobLogs' = addLog(jobLogs, r.job)
    /\ tasks' = Replace(tasks, r, [r EXCEPT !.pc = "download"])
    /\ UNCHANGED <<datasets, isProcessing, loop, launched, cancels, nEnqueue,
                   nCancel, cancelReturned,
                   apiVars, pureVars>>

\* downloadFile or parseSourceData has thrown and the write of the catch
\* block completes; 'failed' is emitted and the task ends
DownloadFails(r) ==
    /\ r.pc = "download"
    /\ \E e \in {FetchError, DecodeError} :
        rows' = [rows EXCEPT ![r.job] = FailedRow(@, e)]
    /\ jobLogs' = addLog(jobLogs, r.job)
    /\ tasks' = Finally(r)
    /\ UNCHANGED <<datasets, isProcessing, loop, launched, cancels, nEnqueue,
                   nCancel, cancelReturned,
                   apiVars, pureVars>>

\* the source has been downloaded and decoded to n records and the
\* totalRecords write completes; the batch loop is entered
SetTotal(r) ==
    /\ r.pc = "download"
    /\ \E n \in 0..MaxRecords :
        \E next \in LoopHead([r EXCEPT !.total = n]) :
            tasks' = Replace(tasks, r, next)
    /\ jobLogs' = addLog(jobLogs, r.job)
    /\ UNCHANGED <<rows, datasets, isProcessing, loop, launched, cancels,
                   nEnqueue, nCancel, cancelReturned,
                   apiVars, pureVars>>

\* the progress write that follows a batch completes, 'progress' is
\* emitted and the loop goes to its next iteration
ProgressWrite(r) ==
    /\ r.pc = "progress"
    /\ rows' = [rows EXCEPT ![r.job].progress =
                    RoundPercent(Min(r.i + BatchSize, r.total), r.total)]
    /\ \E next \in LoopHead([r EXCEPT !.i = r.i + BatchSize]) :
        tasks' = Replace(tasks, r, next)
    /\ jobLogs' = addLog(jobLogs, r.job)
    /\ UNCHANGED <<datasets, isProcessing, loop, launched, cancels, nEnqueue,
                   nCancel, cancelReturned,
                   apiVars, pureVars>>

\* uploadFile has thrown and the write of the catch block completes
UploadFails(r) ==
    /\ r.pc = "upload"
    /\ rows' = [rows EXCEPT ![r.job] = FailedRow(@, StoreError)]
    /\ jobLogs' = addLog(jobLogs, r.job)
    /\ tasks' = Finally(r)
    /\ UNCHANGED <<datasets, isProcessing, loop, launched, cancels, nEnqueue,
                   nCancel, cancelReturned,
                   apiVars, pureVars>>

\* uploadFile has returned and the insert of the dataset row completes
InsertDataset(r) ==
    /\ r.pc = "upload"
    /\ datasets' = datasets (+) SetToBag({[processingJobId |-> r.job]})
    /\ tasks' = Replace(tasks, r, [r EXCEPT !.pc = "complete"])
    /\ UNCHANGED <<rows, isProcessing, jobLogs, loop, launched, cancels,
                   nEnqueue, nCancel, cancelReturned,
                   apiVars, pureVars>>

\* the write of status 'completed' completes; 'completed' is emitted and
\* the task ends
MarkCompleted(r) ==
    /\ r.pc = "complete"
    /\ rows' = [rows EXCEPT ![r.job].status = "completed",
                            ![r.job].progress = 100,
                            ![r.job].completedAt = TRUE]
    /\ jobLogs' = addLog(jobLogs, r.job)
    /\ tasks' = Finally(r)
    /\ UNCHANGED <<datasets, isProcessing, loop, launched, cancels, nEnqueue,
                   nCancel, cancelReturned,
                   apiVars, pureVars>>

\* the write of the catch block completes after a throw in the batch loop
\* or in the encoding; 'failed' is emitted and the task ends
CatchWrite(r) ==
    /\ r.pc = "catch"
    /\ rows' = [rows EXCEPT ![r.job] = FailedRow(@, r.err)]
    /\ jobLogs' = addLog(jobLogs, r.job)
    /\ tasks' = Finally(r)
    /\ UNCHANGED <<datasets, isProcessing, loop, launched, cancels, nEnqueue,
                   nCancel, cancelReturned,
                   apiVars, pureVars>>

\* ---------------------------------------------------------------- Next
Next ==
    \/ \E j \in 1..MaxEnqueueJob : Enqueue(j)
    \/ \E j \in 1..MaxCancelJob : CancelActive(j)
    \/ \E j \in JobIds : CancelWrite(j)
    \/ SleepFull
    \/ SleepLaunched
    \/ QueryPending
    \/ LoopEnds
    \/ Launch
    \/ \E r \in Running : StartWrite(r)
    \/ \E r \in Running : DownloadFails(r)
    \/ \E r \in Running : SetTotal(r)
    \/ \E r \in Running : ProgressWrite(r)
    \/ \E r \in Running : UploadFails(r)
    \/ \E r \in Running : InsertDataset(r)
    \/ \E r \in Running : MarkCompleted(r)
    \/ \E r \in Running : CatchWrite(r)

Spec == Init /\ [][Next]_vars

\* ------------------------------------------------- requests around the queue
\* the jobs controller's create: the data source is ready, a row is
\* inserted with the column defaults and the next serial id; the queue is
\* not called
Create(j) ==
    /\ nApi < MaxApiCalls
    /\ ~Exists(j)
    /\ \A k \in 1..(j - 1) : Exists(k)
    /\ sources[j] = "ready"
    /\ nApi' = nApi + 1
    /\ rows' = [rows EXCEPT ![j] = NewRow]
    /\ UNCHANGED <<datasets, isProcessing, jobLogs, loop, tasks, launched,
                   cancels, nEnqueue, nCancel, cancelReturned, sources,
                   cancelRefused, pureVars>>

\* the jobs controller's cancel: for a pending or processing job the row
\* is updated to status 'cancelled'; the queue is not called
ControllerCancel(j) ==
    /\ nApi < MaxApiCalls
    /\ rows[j].status \in {"pending", "processing"}
    /\ nApi' = nApi + 1
    /\ rows' = [rows EXCEPT ![j].status = "cancelled", ![j].completedAt = TRUE]
    /\ UNCHANGED <<datasets, isProcessing, jobLogs, loop, tasks, launched,
                   cancels, nEnqueue, nCancel, cancelReturned, sources,
                   cancelRefused, pureVars>>

\* the status of the data source of job j is changed from ready to error
SourceStops(j) ==
    /\ nApi < MaxApiCalls
    /\ sources[j] = "ready"
    /\ nApi' = nApi + 1
    /\ sources' = [sources EXCEPT ![j] = "error"]
    /\ UNCHANGED <<rows, datasets, isProcessing, jobLogs, loop, tasks,
                   launched, cancels, nEnqueue, nCancel, cancelReturned,
                   cancelRefused, pureVars>>

\* cancel(jobId) without a stored controller: return false
CancelInactive(j) ==
    /\ j \notin activeJobs
    /\ Len(cancelRefused) < MaxRefused
    /\ cancelRefused' = Append(cancelRefused, j)
    /\ UNCHANGED <<rows, datasets, isProcessing, jobLogs, loop, tasks,
                   launched, cancels, nEnqueue, nCancel, cancelReturned,
                   sources, nApi, pureVars>>

\* no job has been submitted yet
InitApi ==
    /\ rows = [j \in JobIds |-> AbsentRow]
    /\ datasets = EmptyBag
    /\ isProcessing = FALSE
    /\ jobLogs = {}
    /\ loop = [pc |-> "idle", limit |-> 0, pendingJobs |-> {}]
    /\ tasks = EmptyBag
    /\ launched = 0
    /\ cancels = [j \in JobIds |-> 0]
    /\ nEnqueue = 0
    /\ nCancel = 0
    /\ cancelReturned = {}
    /\ ApiIdle
    /\ PureIdle

\* the scheduler loop and the tasks it launches
Scheduler ==
    \/ SleepFull
    \/ SleepLaunched
    \/ QueryPending
    \/ LoopEnds
    \/ Launch
    \/ \E r \in Running : StartWrite(r)
    \/ \E r \in Running : DownloadFails(r)
    \/ \E r \in Running : SetTotal(r)
    \/ \E r \in Running : ProgressWrite(r)
    \/ \E r \in Running : UploadFails(r)
    \/ \E r \in Running : InsertDataset(r)
    \/ \E r \in Running : MarkCompleted(r)
    \/ \E r \in Running : CatchWrite(r)

\* the jobs controller's requests and enqueue calls around the scheduler;
\* the queue's own cancel is not called by the controller
NextApi ==
    \/ \E j \in JobIds : Create(j)
    \/ \E j \in JobIds : ControllerCancel(j)
    \/ \E j \in JobIds : SourceStops(j)
    \/ \E j \in 1..MaxEnqueueJob : Enqueue(j)
    \/ Scheduler

SpecApi == InitApi /\ [][NextApi]_vars

\* enqueue and cancel calls, answered or refused, around the scheduler
NextCancel ==
    \/ \E j \in 1..MaxEnqueueJob : Enqueue(j)
    \/ \E j \in 1..MaxCancelJob : CancelActive(j)
    \/ \E j \in JobIds : CancelWrite(j)
    \/ \E j \in 1..MaxCancelJob : CancelInactive(j)
    \/ Scheduler

SpecCancel == Init /\ [][NextCancel]_vars


\* ------------------------------------------------------------ job logs
\* the variables of the queue
queueVars == <<rows, datasets, isProcessing, jobLogs, loop, tasks, launched,
               cancels, nEnqueue, nCancel, cancelReturned>>

LogJobs == 1..NumLogJobs
Messages == {"Job enqueued", "Processing started"}

\* this.jobLogs.get(jobId) || []
getLogs(map, j) == IF j \in DOMAIN map THEN map[j] ELSE <<>>

\* a cut at the other end: the last n lines are removed
spliceNewest(logs, n) == SubSeq(logs, 1, Len(logs) - n)

\* logs.splice(0, n): the first n lines are removed
splice(logs, n) == SubSeq(logs, n + 1, Len(logs))

\* addLog in full: the line is pushed to the job's array, the array is
\* stored under the job id and cut to its last LogCap lines
addLogLine(map, j, line) ==
    LET logs == Append(getLogs(map, j), line)
    IN (j :> (IF Len(logs) > LogCap
              THEN splice(logs, Len(logs) - LogCap)
              ELSE logs)) @@ map

\* the lines passed to addLog so far
TotalAppended ==
    LET RECURSIVE Sum(_)
        Sum(S) == IF S = {} THEN 0
                  ELSE LET j == CHOOSE x \in S : TRUE
                       IN Len(appended[j]) + Sum(S \ {j})
    IN Sum(DOMAIN appended)

\* one call addLog(j, m)
AddLog(j, m) ==
    /\ TotalAppended < MaxAppends
    /\ logLines' = addLogLine(logLines, j, m)
    /\ appended' = (j :> Append(getLogs(appended, j), m)) @@ appended
    /\ UNCHANGED <<queueVars, apiVars, allMatches, piiResult, filterInput,
                   filterResult, extVars>>

NextLogs == \E j \in LogJobs, m \in Messages : AddLog(j, m)

SpecLogs == Init /\ [][NextLogs]_vars


\* ------------------------------------------------------- PII detection
\* confidences of two detection sources, in hundredths: date_of_birth
\* and email
Confidences == {70, 95}

\* a raw match: a non-empty span [start, end) of the text; every built-in
\* pattern needs a character, a name has 2 or more and a place 3 or more
RawMatches ==
    {m \in [start : 0..MaxPos, end : 0..MaxPos, confidence : Confidences] :
        m.start < m.end}

\* a comparator with the confidences the other way round
BeforeLowFirst(a, b) ==
    IF a.start # b.start THEN a.start < b.start
    ELSE a.confidence - b.confidence < 0

\* the comparator of the sort: a negative result, a is placed before b
Before(a, b) ==
    IF a.start # b.start THEN a.start < b.start
    ELSE b.confidence - a.confidence < 0

\* Array.prototype.sort with that comparator: stable, so matches that
\* compare equal keep their order
RECURSIVE sorted(_)
sorted(matches) ==
    IF matches = <<>> THEN <<>>
    ELSE LET n == Len(matches)
             m == matches[n]
             s == sorted(SubSeq(matches, 1, n - 1))
             k == Cardinality({i \in 1..Len(s) : ~Before(m, s[i])})
         IN SubSeq(s, 1, k) \o <<m>> \o SubSeq(s, k + 1, Len(s))

\* one less condition: a match that starts inside an accepted one and
\* ends after it is not caught
overlapsNoStartInside(match, existing) ==
    \/ (match.end > existing.start /\ match.end <= existing.end)
    \/ (match.start <= existing.start /\ match.end >= existing.end)

\* the test of result.some(...)
overlaps(match, existing) ==
    \/ (match.start >= existing.start /\ match.start < existing.end)
    \/ (match.end > existing.start /\ match.end <= existing.end)
    \/ (match.start <= existing.start /\ match.end >= existing.end)

\* the loop over the sorted matches, the first n of them done
RECURSIVE accepted(_, _)
accepted(s, n) ==
    IF n = 0 THEN <<>>
    ELSE LET result == accepted(s, n - 1)
         IN IF \E i \in 1..Len(result) : overlaps(s[n], result[i])
            THEN result
            ELSE Append(result, s[n])

deduplicateMatches(matches) ==
    LET s == sorted(matches) IN accepted(s, Len(s))

\* the raw matches of a call, in the order the sources pushed them
InitPii ==
    /\ rows = [j \in JobIds |-> NewRow]
    /\ datasets = EmptyBag
    /\ isProcessing = FALSE
    /\ jobLogs = {}
    /\ loop = [pc |-> "idle", limit |-> 0, pendingJobs |-> {}]
    /\ tasks = EmptyBag
    /\ launched = 0
    /\ cancels = [j \in JobIds |-> 0]
    /\ nEnqueue = 0
    /\ nCancel = 0
    /\ cancelReturned = {}
    /\ ApiIdle
    /\ LogsIdle
    /\ FiltersIdle
    /\ ExtIdle
    /\ \E n \in 0..MaxMatches : allMatches \in [1..n -> RawMatches]
    /\ piiResult = [done |-> FALSE, matches |-> <<>>]

\* detectPII from the collected raw matches to its return
DetectPII ==
    /\ ~piiResult.done
    /\ piiResult' = [done |-> TRUE, matches |-> deduplicateMatches(allMatches)]
    /\ UNCHANGED <<queueVars, apiVars, logLines, appended, allMatches,
                   filterInput, filterResult, extVars>>

NextPii == DetectPII

SpecPii == InitPii /\ [][NextPii]_vars


\* ----------------------------------------------------------- filtering
\* JavaScript values: a number, a string (its characters) or undefined
Num(n) == [t |-> "number", n |-> n, s |-> <<>>]
Str(s) == [t |-> "string", n |-> 0, s |-> s]
Undefined == [t |-> "undefined", n |-> 0, s |-> <<>>]

DigitChars == <<"0", "1", "2", "3", "4", "5", "6", "7", "8", "9">>

\* String(v) of a string or of a natural number: its decimal digits
RECURSIVE digits(_)
digits(n) ==
    IF n < 10 THEN <<DigitChars[n + 1]>>
    ELSE Append(digits(n \div 10), DigitChars[(n % 10) + 1])
String(v) == IF v.t = "number" THEN digits(v.n) ELSE v.s

\* Number(v) of a number or of a string: a string of decimal digits is
\* its value, the empty string is 0, any other string is NaN
RECURSIVE digitsValue(_)
digitsValue(s) ==
    IF s = <<>> THEN 0
    ELSE 10 * digitsValue(SubSeq(s, 1, Len(s) - 1))
         + (CHOOSE d \in 0..9 : DigitChars[d + 1] = s[Len(s)])
Number(v) ==
    IF v.t = "number" THEN [nan |-> FALSE, n |-> v.n]
    ELSE IF \A i \in 1..Len(v.s) : \E d \in 1..10 : DigitChars[d] = v.s[i]
         THEN [nan |-> FALSE, n |-> digitsValue(v.s)]
         ELSE [nan |-> TRUE, n |-> 0]

\* value.includes(sub)
includes(str, sub) ==
    \E i \in 0..(Len(str) - Len(sub)) : SubSeq(str, i + 1, i + Len(sub)) = sub

\* value <= Number(x) and value >= Number(x): false against NaN
Lte(n, x) == ~x.nan /\ n <= x.n
Gte(n, x) == ~x.nan /\ n >= x.n

Operators == {"eq", "ne", "gt", "gte", "lt", "lte", "contains", "not_contains"}
Ordering == {"gt", "gte", "lt", "lte"}
Fields == {"age", "country"}

\* the switch of the loop body: TRUE where it returns false; an operator
\* with no case leaves the switch and the loop goes on
returnsFalse(value, condition) ==
    CASE condition.operator = "eq" -> value # condition.value
      [] condition.operator = "ne" -> value = condition.value
      [] condition.operator = "gt" ->
            value.t # "number" \/ Lte(value.n, Number(condition.value))
      [] condition.operator = "lt" ->
            value.t # "number" \/ Gte(value.n, Number(condition.value))
      [] condition.operator = "contains" ->
            value.t # "string" \/ ~includes(value.s, String(condition.value))
      [] condition.operator = "not_contains" ->
            value.t # "string" \/ includes(value.s, String(condition.value))
      [] OTHER -> FALSE

\* checkFilters: the conditions are evaluated in order and the first one
\* whose case returns false ends the call; no conditions (undefined or an
\* empty array) give true
RECURSIVE checkFilters(_, _)
checkFilters(record, conditions) ==
    IF conditions = <<>> THEN TRUE
    ELSE IF returnsFalse(record[conditions[1].field], conditions[1])
         THEN FALSE
         ELSE checkFilters(record, Tail(conditions))

\* the records and conditions explored; record[field] of a field the
\* record lacks is undefined; an ordering operator is given a number
Records ==
    [age : {Num(17), Num(18), Num(25), Str(<<"1", "8">>), Undefined},
     country : {Str(<<"U", "S">>), Str(<<"U">>), Undefined}]
Conditions ==
    {c \in [field : Fields, operator : Operators,
            value : {Num(18), Str(<<"U", "S">>), Str(<<"U">>)}] :
        c.operator \in Ordering => c.value.t = "number"}

InitFilters ==
    /\ rows = [j \in JobIds |-> NewRow]
    /\ datasets = EmptyBag
    /\ isProcessing = FALSE
    /\ jobLogs = {}
    /\ loop = [pc |-> "idle", limit |-> 0, pendingJobs |-> {}]
    /\ tasks = EmptyBag
    /\ launched = 0
    /\ cancels = [j \in JobIds |-> 0]
    /\ nEnqueue = 0
    /\ nCancel = 0
    /\ cancelReturned = {}
    /\ ApiIdle
    /\ LogsIdle
    /\ PiiIdle
    /\ ExtIdle
    /\ \E n \in 0..MaxConditions :
           filterInput \in [record : Records,
                            conditions : [1..n -> Conditions]]
    /\ filterResult = [done |-> FALSE, kept |-> FALSE]

\* one call of checkFilters
CheckFilters ==
    /\ ~filterResult.done
    /\ filterResult' =
           [done |-> TRUE,
            kept |-> checkFilters(filterInput.record, filterInput.conditions)]
    /\ UNCHANGED <<queueVars, apiVars, logLines, appended, allMatches,
                   piiResult, filterInput, extVars>>

NextFilters == CheckFilters

SpecFilters == InitFilters /\ [][NextFilters]_vars


\* ------------------------------------------------------- field mapping
\* the queue at rest
QueueIdle ==
    /\ rows = [j \in JobIds |-> NewRow]
    /\ datasets = EmptyBag
    /\ isProcessing = FALSE
    /\ jobLogs = {}
    /\ loop = [pc |-> "idle", limit |-> 0, pendingJobs |-> {}]
    /\ tasks = EmptyBag
    /\ launched = 0
    /\ cancels = [j \in JobIds |-> 0]
    /\ nEnqueue = 0
    /\ nCancel = 0
    /\ cancelReturned = {}

MapFields == {"a", "b", "c"}
MapValues == 1..NumMapValues

\* the records and the mappings (newField -> oldField) explored: an object
\* is a function from the keys it has
MapRecords == UNION {[S -> MapValues] : S \in SUBSET MapFields}
Mappings == UNION {[S -> MapFields] : S \in SUBSET MapFields}

\* applyFieldMappings: the first loop writes result[newField] for every
\* entry whose oldField is in the record; the second loop then writes
\* result[key] for every key of the record that is no entry's oldField,
\* over what the first loop wrote under that key
applyFieldMappings(record, mappings) ==
    LET mapped == [newField \in {n \in DOMAIN mappings :
                                    mappings[n] \in DOMAIN record}
                      |-> record[mappings[newField]]]
        values == {mappings[n] : n \in DOMAIN mappings}
        unmapped == [key \in DOMAIN record \ values |-> record[key]]
    IN unmapped @@ mapped

InitMap ==
    /\ QueueIdle
    /\ ApiIdle
    /\ LogsIdle
    /\ PiiIdle
    /\ FiltersIdle
    /\ CountIdle
    /\ CustomIdle
    /\ RedactIdle
    /\ LoopIdle
    /\ mapInput \in [record : MapRecords, mappings : Mappings]
    /\ mapResult = [done |-> FALSE, record |-> <<>>]

\* one call of applyFieldMappings
ApplyFieldMappings ==
    /\ ~mapResult.done
    /\ mapResult' =
           [done |-> TRUE,
            record |-> applyFieldMappings(mapInput.record, mapInput.mappings)]
    /\ UNCHANGED <<queueVars, apiVars, logLines, appended, allMatches,
                   piiResult, filterInput, filterResult, mapInput,
                   countVars, customVars, redactVars, loopVars>>

NextMap == ApplyFieldMappings

SpecMap == InitMap /\ [][NextMap]_vars


\* ------------------------------------------------------- record counts
\* a nullable integer column: {} is null, {n} the value n
Null == {}

\* one run of processJob from the decoded source to the 'completed'
\* write, with the counts it keeps and the columns it writes; a record is
\* what checkFilters answers for it
NewRun(records, inputRecordCount) ==
    [pc |-> "total",
     records |-> records,
     i |-> 0,
     processedRecords |-> 0,
     status |-> "processing",
     row |-> [inputRecordCount |-> {inputRecordCount},
              outputRecordCount |-> Null,
              filteredOutCount |-> Null,
              totalRecords |-> Null,
              processedRecords |-> Null],
     dataset |-> Null]

\* the job row was created with inputRecordCount: ds[0].recordCount || 0,
\* a column of the data source that the upload of the file fills
InitCounts ==
    /\ QueueIdle
    /\ ApiIdle
    /\ LogsIdle
    /\ PiiIdle
    /\ FiltersIdle
    /\ MapIdle
    /\ CustomIdle
    /\ RedactIdle
    /\ LoopIdle
    /\ \E n \in 0..MaxCounted :
       \E records \in [1..n -> BOOLEAN], c \in {0, n} :
           countRun = NewRun(records, c)

\* the records of a batch that pass the filter are pushed
Pushed(records, from, to) ==
    Cardinality({k \in (from + 1)..to : records[k]})

\* the update of totalRecords lands
TotalRecordsWrite ==
    /\ countRun.pc = "total"
    /\ countRun' = [countRun EXCEPT
           !.row.totalRecords = {Len(countRun.records)},
           !.pc = IF Len(countRun.records) = 0 THEN "upload" ELSE "batch"]
    /\ UNCHANGED <<queueVars, apiVars, corePure, mapVars, customVars,
                   redactVars, loopVars>>

\* a batch is transformed and its progress update lands
BatchWrite ==
    /\ countRun.pc = "batch"
    /\ LET total == Len(countRun.records)
           end == Min(countRun.i + BatchSize, total)
       IN countRun' = [countRun EXCEPT
              !.processedRecords =
                  @ + Pushed(countRun.records, countRun.i, end),
              !.row.processedRecords = {end},
              !.i = countRun.i + BatchSize,
              !.pc = IF countRun.i + BatchSize < total
                     THEN "batch" ELSE "upload"]
    /\ UNCHANGED <<queueVars, apiVars, corePure, mapVars, customVars,
                   redactVars, loopVars>>

\* the upload returns and the insert of the dataset row is issued
UploadDone ==
    /\ countRun.pc = "upload"
    /\ countRun' = [countRun EXCEPT !.pc = "insert"]
    /\ UNCHANGED <<queueVars, apiVars, corePure, mapVars, customVars,
                   redactVars, loopVars>>

\* the dataset row is inserted with recordCount: processedRecords.length
DatasetInsert ==
    /\ countRun.pc = "insert"
    /\ countRun' = [countRun EXCEPT
           !.dataset = {countRun.processedRecords},
           !.pc = "complete"]
    /\ UNCHANGED <<queueVars, apiVars, corePure, mapVars, customVars,
                   redactVars, loopVars>>

\* the final update lands: status, progress, processedRecords, completedAt
CompletedWrite ==
    /\ countRun.pc = "complete"
    /\ countRun' = [countRun EXCEPT
           !.status = "completed",
           !.row.processedRecords = {countRun.processedRecords},
           !.pc = "done"]
    /\ UNCHANGED <<queueVars, apiVars, corePure, mapVars, customVars,
                   redactVars, loopVars>>

NextCounts ==
    \/ TotalRecordsWrite
    \/ BatchWrite
    \/ UploadDone
    \/ DatasetInsert
    \/ CompletedWrite

SpecCounts == InitCounts /\ [][NextCounts]_vars


\* ------------------------------------------------------ custom patterns
\* what a regular expression does on the text: at each position of the
\* text either no match starts there or its match there has some length,
\* possibly 0
Positions == 0..MaxPos
CustomPatterns ==
    [global : BOOLEAN,
     matchAt : {f \in [Positions -> SUBSET (0..MaxPos)] :
                   \A p \in Positions :
                       /\ Cardinality(f[p]) <= 1
                       /\ \A len \in f[p] : p + len <= MaxPos}]

\* regex.exec(text): the search starts at lastIndex if the regex has the
\* g flag and at 0 if not; with the g flag a match sets lastIndex to its
\* end and a failure sets it to 0; without, lastIndex is left alone
exec(pattern, lastIndex) ==
    LET from == IF pattern.global THEN lastIndex ELSE 0
        starts == {p \in from..MaxPos : pattern.matchAt[p] # {}}
    IN IF starts = {}
       THEN [found |-> FALSE, index |-> 0, length |-> 0,
             lastIndex |-> IF pattern.global THEN 0 ELSE lastIndex]
       ELSE LET index == CHOOSE p \in starts : \A q \in starts : p <= q
                length == CHOOSE len \in pattern.matchAt[index] : TRUE
            IN [found |-> TRUE, index |-> index, length |-> length,
                lastIndex |-> IF pattern.global THEN index + length
                              ELSE lastIndex]

\* detectPII reaches the loop over one custom pattern, whose regex was
\* rebuilt from its source and flags, lastIndex 0
InitCustom ==
    /\ QueueIdle
    /\ ApiIdle
    /\ LogsIdle
    /\ PiiIdle
    /\ FiltersIdle
    /\ MapIdle
    /\ CountIdle
    /\ RedactIdle
    /\ LoopIdle
    /\ customPattern \in CustomPatterns
    /\ scan = [pc |-> "exec", lastIndex |-> 0, pushed |-> <<>>]

\* one evaluation of the while condition: exec returns null and the loop
\* is left, or the match is pushed to allMatches (of which the first
\* MaxPushed are kept track of) and the condition is evaluated again
ExecStep ==
    /\ scan.pc = "exec"
    /\ LET match == exec(customPattern, scan.lastIndex)
       IN scan' =
              IF ~match.found
              THEN [scan EXCEPT !.pc = "returned",
                                !.lastIndex = match.lastIndex]
              ELSE [scan EXCEPT
                       !.lastIndex = match.lastIndex,
                       !.pushed =
                           IF Len(@) < MaxPushed
                           THEN Append(@, [start |-> match.index,
                                           end |-> match.index + match.length])
                           ELSE @]
    /\ UNCHANGED <<queueVars, apiVars, corePure, mapVars, countVars,
                   customPattern, redactVars, loopVars>>

NextCustom == ExecStep

SpecCustom == InitCustom /\ [][NextCustom]_vars


\* ------------------------------------------------------------ redaction
Chars == {"x", "y"}
Texts == [1..MaxPos -> Chars]

\* a replacement: the label of the match's type, or redactionChar
\* repeated, of any length
Labels == UNION {[1..n -> {"#"}] : n \in 0..MaxLabel}

\* accepted matches: non-empty spans of the text, no two overlapping,
\* each with its replacement, in any order
Spans ==
    {m \in [start : 0..MaxPos, end : 0..MaxPos, label : Labels] :
        m.start < m.end}
AcceptedMatches ==
    UNION {{ms \in [1..n -> Spans] :
               \A i, j \in 1..n :
                   i # j => (ms[i].end <= ms[j].start
                             \/ ms[j].end <= ms[i].start)} :
           n \in 0..MaxMatches}

\* str.slice(from, to) and str.slice(from): indices past the end are
\* taken as the length
slice(str, from, to) == SubSeq(str, Min(from, Len(str)) + 1, Min(to, Len(str)))
sliceFrom(str, from) == slice(str, from, Len(str))

\* a sort the other way round: (a, b) => a.start - b.start
lowestFirst(matches) ==
    LET RECURSIVE ins(_)
        ins(ms) ==
            IF ms = <<>> THEN <<>>
            ELSE LET n == Len(ms)
                     m == ms[n]
                     s == ins(SubSeq(ms, 1, n - 1))
                     k == Cardinality({i \in 1..Len(s) :
                                          ~(m.start - s[i].start < 0)})
                 IN SubSeq(s, 1, k) \o <<m>> \o SubSeq(s, k + 1, Len(s))
    IN ins(matches)

\* [...matches].sort((a, b) => b.start - a.start): stable, highest start
\* first
sortedMatches(matches) ==
    LET RECURSIVE ins(_)
        ins(ms) ==
            IF ms = <<>> THEN <<>>
            ELSE LET n == Len(ms)
                     m == ms[n]
                     s == ins(SubSeq(ms, 1, n - 1))
                     k == Cardinality({i \in 1..Len(s) :
                                          ~(s[i].start - m.start < 0)})
                 IN SubSeq(s, 1, k) \o <<m>> \o SubSeq(s, k + 1, Len(s))
    IN ins(matches)

\* the loop over sortedMatches: each match is cut out of the text as it
\* is by then, at the match's offsets in the original text
RECURSIVE replaced(_, _)
replaced(redactedText, ms) ==
    IF ms = <<>> THEN redactedText
    ELSE replaced(slice(redactedText, 0, ms[1].start)
                  \o ms[1].label
                  \o sliceFrom(redactedText, ms[1].end),
                  Tail(ms))

redact(text, matches) == replaced(text, sortedMatches(matches))

InitRedact ==
    /\ QueueIdle
    /\ ApiIdle
    /\ LogsIdle
    /\ PiiIdle
    /\ FiltersIdle
    /\ MapIdle
    /\ CountIdle
    /\ CustomIdle
    /\ LoopIdle
    /\ redactInput \in [text : Texts, matches : AcceptedMatches]
    /\ redactResult = [done |-> FALSE, redactedText |-> <<>>]

\* the redaction of detectPII and of redactPII
Redact ==
    /\ ~redactResult.done
    /\ redactResult' =
           [done |-> TRUE,
            redactedText |-> redact(redactInput.text, redactInput.matches)]
    /\ UNCHANGED <<queueVars, apiVars, corePure, mapVars, countVars,
                   customVars, redactInput, loopVars>>

NextRedact == Redact

SpecRedact == InitRedact /\ [][NextRedact]_vars


\* ------------------------------------------------- the scheduler loops
\* processQueue as something that can be invoked any number of times:
\* loopRun.loops are the invocations that have passed the guard and not
\* reached their finally block, .isProcessing is the flag, .inflight the
\* enqueue calls awaiting their update, .issued the enqueue calls made,
\* .active is activeJobs.size and .lastEnd how the last loop ended
InitLoop ==
    /\ QueueIdle
    /\ ApiIdle
    /\ LogsIdle
    /\ PiiIdle
    /\ FiltersIdle
    /\ MapIdle
    /\ CountIdle
    /\ CustomIdle
    /\ RedactIdle
    /\ loopRun = [loops |-> <<>>, isProcessing |-> FALSE, inflight |-> 0,
                  issued |-> 0, active |-> 0, lastEnd |-> "none"]

LoopFrame == UNCHANGED <<queueVars, apiVars, corePure, mapVars, countVars,
                         customVars, redactVars>>

\* a guard that lets every invocation through
neverProcessing(flag) == FALSE

\* if (this.isProcessing) return
alreadyProcessing(flag) == flag

\* sequence s without its i-th element
RemoveAt(s, i) == SubSeq(s, 1, i - 1) \o SubSeq(s, i + 1, Len(s))

\* enqueue is called and awaits its update
EnqueueCalled ==
    /\ loopRun.issued < MaxLoopEnqueues
    /\ loopRun' = [loopRun EXCEPT !.issued = @ + 1, !.inflight = @ + 1]
    /\ LoopFrame

\* the update of an enqueue call lands and the call invokes processQueue,
\* which returns at the guard or sets the flag and runs to its first await
EnqueueInvokes ==
    /\ loopRun.inflight > 0
    /\ loopRun' =
           IF alreadyProcessing(loopRun.isProcessing)
           THEN [loopRun EXCEPT !.inflight = @ - 1]
           ELSE [loopRun EXCEPT
                    !.inflight = @ - 1,
                    !.isProcessing = TRUE,
                    !.loops = Append(@, LoopTop(loopRun.active))]
    /\ LoopFrame

\* a sleep of loop i ends: the top of the while loop again
SleepEnds(i) ==
    /\ loopRun.loops[i].pc \in {"sleep1000", "sleep100"}
    /\ loopRun' = [loopRun EXCEPT !.loops[i] = LoopTop(loopRun.active)]
    /\ LoopFrame

\* the select of loop i returns k rows: a processJob is started for each
\* and stores its controller, and the loop sleeps
QueryFinds(i, k) ==
    /\ loopRun.loops[i].pc = "query"
    /\ k <= loopRun.loops[i].limit
    /\ loopRun' = [loopRun EXCEPT
           !.active = @ + k,
           !.loops[i] = [pc |-> "sleep100", limit |-> 0, pendingJobs |-> {}]]
    /\ LoopFrame

\* the select of loop i returns no row (break) or throws: in both cases
\* the finally block resets the flag and the invocation ends
QueryEndsLoop(i, how) ==
    /\ loopRun.loops[i].pc = "query"
    /\ loopRun' = [loopRun EXCEPT
           !.loops = RemoveAt(@, i),
           !.isProcessing = FALSE,
           !.lastEnd = how]
    /\ LoopFrame

\* a processJob reaches its finally block: its registry entry is deleted
JobEnds ==
    /\ loopRun.active > 0
    /\ loopRun' = [loopRun EXCEPT !.active = @ - 1]
    /\ LoopFrame

NextLoop ==
    \/ EnqueueCalled
    \/ EnqueueInvokes
    \/ \E i \in 1..Len(loopRun.loops) : SleepEnds(i)
    \/ \E i \in 1..Len(loopRun.loops), k \in 1..concurrency : QueryFinds(i, k)
    \/ \E i \in 1..Len(loopRun.loops) : QueryEndsLoop(i, "no pending job")
    \/ \E i \in 1..Len(loopRun.loops) : QueryEndsLoop(i, "query threw")
    \/ JobEnds

SpecLoop == InitLoop /\ [][NextLoop]_vars


\* ---------------------------------------------------- failing updates
\* the update of the catch block throws: nothing is written, the error
\* leaves the catch block, the finally block runs and the task ends (the
\* line 'Job failed: ...' was logged before the update was issued, and the
\* rejection is caught where processQueue started the task)
CatchWriteThrows(r) ==
    /\ r.pc = "catch"
    /\ jobLogs' = addLog(jobLogs, r.job)
    /\ tasks' = Finally(r)
    /\ UNCHANGED <<rows, datasets, isProcessing, loop, launched, cancels,
                   nEnqueue, nCancel, cancelReturned,
                   apiVars, pureVars>>

\* enqueue and the scheduler, with updates that can throw
NextFail ==
    \/ \E j \in 1..MaxEnqueueJob : Enqueue(j)
    \/ Scheduler
    \/ \E r \in Running : CatchWriteThrows(r)

SpecFail == Init /\ [][NextFail]_vars

\* ------------------------------------------------------------ properties
\* no task of job j is running and no cancel write for j is in flight
Quiet(j) == cancels[j] = 0 /\ \A r \in Running : r.job # j

\* task r has observed, at a batch boundary, a cancellation that was
\* issued while it was in its batch loop, and has thrown 'Job cancelled'
ObservedCancel(r) == r.pc = "catch" /\ r.err = CancelError /\ r.cancelAt > 0

\* C1: once cancel has returned true for a job and the job's task has
\* observed, at the next batch boundary, the cancellation issued during its
\* batch loop, the job is not recorded as failed: no step leaves its
\* persisted status failed.
C1_ObservedCancelNotFailed ==
    [][\A r \in Running :
         (ObservedCancel(r) /\ r.job \in cancelReturned)
             => rows'[r.job].status # "failed"]_vars

\* C2: when cancel races with the completion of the same job, the terminal
\* status written first stays: no step replaces cancelled by completed or
\* completed by cancelled.
C2_FirstTerminalStatusStays ==
    [][\A j \in JobIds :
         (rows[j].status \in {"cancelled", "completed"}
            /\ rows'[j].status \in {"cancelled", "completed"})
             => rows'[j].status = rows[j].status]_vars

\* C3: after cancel has returned true for a job, no dataset row is created
\* for that job.  Stated for the runs with a single enqueue call, so that
\* the job is not enqueued again after its cancellation.
C3_NoDatasetAfterCancel ==
    [][nEnqueue = 1 =>
         \A j \in cancelReturned :
             CopiesIn([processingJobId |-> j], datasets')
                 = CopiesIn([processingJobId |-> j], datasets)]_vars

\* C4: a task of a job for which cancel was issued while the task was in
\* batch k is never in a batch later than k.
C4_NoBatchAfterCancel ==
    \A r \in Running :
        (r.pc = "progress" /\ r.cancelAt > 0) => BatchOf(r) <= r.cancelAt

\* C5: the number of tasks launched and not yet finished is at most the
\* configured concurrency.
C5_AtMostConcurrencyTasks == BagCardinality(tasks) <= concurrency

\* C6: pending jobs are claimed in creation order (ids are serial): a step
\* that launches tasks leaves no pending job without a task that was
\* created before a job it launches.
C6_ClaimedInCreationOrder ==
    [][launched' > launched =>
         \A j \in loop.pendingJobs :
             \A k \in 1..(j - 1) :
                 (rows[k].status = "pending" /\ \A r \in Running : r.job # k)
                     => k \in loop.pendingJobs]_vars

\* C7: every job has at most one dataset row originating from it, and a
\* job whose status is completed has exactly one.
C7_OneDatasetPerJob ==
    \A j \in JobIds :
        /\ DatasetsOf(j) <= 1
        /\ rows[j].status = "completed" => DatasetsOf(j) = 1

\* C8: a job whose fetch, decode, encode or store has thrown (its row holds
\* the message of that error) ends with status failed and without a
\* dataset row.  Stated for the runs with a single enqueue call, so that
\* the job is not enqueued again after its failure.
C8_StageErrorEndsFailed ==
    \A j \in JobIds :
        (nEnqueue = 1 /\ Quiet(j) /\ rows[j].errorMessage \in IOErrors)
            => (rows[j].status = "failed" /\ DatasetsOf(j) = 0)

\* C9: the persisted progress stays within 0..100, does not decrease from
\* one write to the next while the status is processing, and is 100 when
\* the status becomes completed.
C9_ProgressMonotone ==
    [][\A j \in JobIds :
         /\ rows'[j].progress \in 0..100
         /\ (rows[j].status = "processing" /\ rows'[j].status = "processing")
                => rows'[j].progress >= rows[j].progress
         /\ (rows[j].status # "completed" /\ rows'[j].status = "completed")
                => rows'[j].progress = 100]_vars

\* C10: completedAt is set if and only if the status is completed, failed
\* or cancelled.
C10_CompletedAtIffTerminal ==
    \A j \in JobIds : rows[j].completedAt <=> rows[j].status \in Terminal

\* C11: enqueue on a job whose status is completed, failed or cancelled is
\* a no-op: a step in which an enqueue call completes leaves the status of
\* every job that was terminal as it was.
C11_EnqueueTerminalNoOp ==
    [][nEnqueue' > nEnqueue =>
         \A j \in JobIds :
             rows[j].status \in Terminal => rows'[j].status = rows[j].status]_vars

\* C14: a job that enqueue has marked pending is claimed without a further
\* enqueue call.  Only a running scheduler loop claims jobs and only an
\* enqueue call starts one, so whenever such a job is pending a loop is
\* running (a job has a log and status pending only after enqueue wrote
\* it).  Stated for the jobs without a task or a cancel write in flight,
\* whose status nothing but the scheduler can change.
C14_EnqueuedPendingHasLoop ==
    \A j \in JobIds :
        (j \in jobLogs /\ rows[j].status = "pending" /\ Quiet(j))
            => isProcessing

\* C12: enqueue for an id that has no job row ends in an error and records
\* no log for the id: an id without a row has no log.
C12_NoLogWithoutRow == \A j \in JobIds : ~Exists(j) => j \notin jobLogs

\* C15: job submission creates a pending row and calls enqueue: the step
\* that inserts the row of a job leaves the job with the log line of
\* enqueue and the scheduler loop running.
C15_SubmissionEnqueues ==
    [][\A j \in JobIds :
         (~Exists(j) /\ rows'[j].status = "pending")
             => (j \in jobLogs' /\ isProcessing')]_vars

\* C16: the controller's cancel action on a processing job is mapped to
\* cancel(jobId), which signals the job's running task: after the step
\* that writes status cancelled over status processing no task of the job
\* is left with its controller stored and unsignalled.
C16_ControllerCancelSignals ==
    [][\A j \in JobIds :
         (rows[j].status = "processing" /\ rows'[j].status = "cancelled")
             => \A r \in BagToSet(tasks') : r.job = j => ~r.registered]_vars

\* C17: no job is moved to processing while the status of its data source
\* is not ready.
C17_StartsOnlyWhenSourceReady ==
    [][\A j \in JobIds :
         (rows[j].status # "processing" /\ rows'[j].status = "processing")
             => sources[j] = "ready"]_vars

\* C13: cancel(jobId) returns false, and so signals no task and issues no
\* write, when the job is not active; a job whose row holds a terminal
\* status is not active, so no cancel call on it takes the branch that
\* aborts a controller and writes 'cancelled'
C13_CancelFalseWhenTerminal ==
    [][\A j \in JobIds :
          rows[j].status \in Terminal => cancels'[j] <= cancels[j]]_vars

\* the last n elements of sequence s, in order (all of s if it is shorter)
LastLines(s, n) == IF Len(s) > n THEN SubSeq(s, Len(s) - n + 1, Len(s)) ELSE s

\* C18: after any sequence of log appends, getLogs(jobId) returns at most
\* LogCap lines, and they are the most recently appended lines of the job
\* in append order; a job with no log yields the empty sequence
C18_LogsAreLatestLines ==
    \A j \in LogJobs :
        /\ Len(getLogs(logLines, j)) <= LogCap
        /\ getLogs(logLines, j) = LastLines(getLogs(appended, j), LogCap)
        /\ (j \notin DOMAIN appended => getLogs(logLines, j) = <<>>)

\* a job's log has dropped lines while another job has no log
C18_Witness ==
    /\ Len(getLogs(appended, 1)) > LogCap
    /\ Len(getLogs(logLines, 1)) = LogCap
    /\ 2 \notin DOMAIN logLines

\* C19: no two matches returned by detectPII overlap: for any two distinct
\* returned matches a and b, a.end <= b.start or b.end <= a.start
C19_ReturnedMatchesDisjoint ==
    piiResult.done =>
        \A i, j \in 1..Len(piiResult.matches) :
            i # j =>
                LET a == piiResult.matches[i]
                    b == piiResult.matches[j]
                IN a.end <= b.start \/ b.end <= a.start

\* detectPII has returned two matches from raw matches of which one lay
\* inside another
C19_Witness ==
    /\ piiResult.done
    /\ Len(piiResult.matches) = 2
    /\ \E i, j \in 1..Len(allMatches) :
           /\ allMatches[i].start < allMatches[j].start
           /\ allMatches[j].end < allMatches[i].end

\* what it is for a value to satisfy one condition, by the meaning of the
\* eight operators
Satisfies(value, condition) ==
    LET x == Number(condition.value)
        sub == String(condition.value)
    IN CASE condition.operator = "eq" -> value = condition.value
         [] condition.operator = "ne" -> value # condition.value
         [] condition.operator = "gt" ->
               value.t = "number" /\ ~x.nan /\ value.n > x.n
         [] condition.operator = "gte" ->
               value.t = "number" /\ ~x.nan /\ value.n >= x.n
         [] condition.operator = "lt" ->
               value.t = "number" /\ ~x.nan /\ value.n < x.n
         [] condition.operator = "lte" ->
               value.t = "number" /\ ~x.nan /\ value.n <= x.n
         [] condition.operator = "contains" ->
               value.t = "string" /\ includes(value.s, sub)
         [] condition.operator = "not_contains" ->
               value.t = "string" /\ ~includes(value.s, sub)

\* C20: checkFilters keeps a record iff the record satisfies every
\* condition evaluated on its own, for all eight operators, whatever the
\* order of the conditions
C20_KeptIffEverySatisfied ==
    filterResult.done =>
        (filterResult.kept <=>
            \A i \in 1..Len(filterInput.conditions) :
                Satisfies(filterInput.record[filterInput.conditions[i].field],
                          filterInput.conditions[i]))

\* C21: a condition on a wrongly-typed or missing field fails closed: a
\* gt, gte, lt or lte condition drops every record whose field value is
\* not a number, and a contains or not_contains condition drops every
\* record whose field value is not a string
C21_WrongTypeFailsClosed ==
    filterResult.done =>
        \A i \in 1..Len(filterInput.conditions) :
            LET c == filterInput.conditions[i]
                value == filterInput.record[c.field]
            IN /\ (c.operator \in Ordering /\ value.t # "number")
                      => ~filterResult.kept
               /\ (c.operator \in {"contains", "not_contains"}
                   /\ value.t # "string") => ~filterResult.kept

\* C22: for every mapping entry newField <- oldField whose oldField is in
\* the record, output[newField] = record[oldField], also when the record
\* already has a field named newField; every other field of the record
\* that is not the source of an entry is copied unchanged
C22_MappedTargetHasSourceValue ==
    mapResult.done =>
        LET record == mapInput.record
            mappings == mapInput.mappings
            output == mapResult.record
            applied == {n \in DOMAIN mappings : mappings[n] \in DOMAIN record}
            read == {mappings[n] : n \in DOMAIN mappings}
        IN /\ \A newField \in applied :
                  /\ newField \in DOMAIN output
                  /\ output[newField] = record[mappings[newField]]
           /\ \A key \in DOMAIN record \ (read \cup applied) :
                  /\ key \in DOMAIN output
                  /\ output[key] = record[key]

\* C23: a completed job that read N input records of which d failed a
\* filter condition has persisted inputRecordCount = N, outputRecordCount
\* = N - d and filteredOutCount = d, and its dataset has N - d records
C23_CountsOfCompletedJob ==
    (countRun.pc = "done" /\ countRun.status = "completed") =>
        LET N == Len(countRun.records)
            d == Cardinality({k \in 1..N : ~countRun.records[k]})
        IN /\ countRun.row.inputRecordCount = {N}
           /\ countRun.row.outputRecordCount = {N - d}
           /\ countRun.row.filteredOutCount = {d}
           /\ countRun.dataset = {N - d}

\* C24: detectPII returns for every text and every custom pattern, also
\* one that can match the empty string and one without the global flag:
\* the loop over a pattern's matches ends, which it does only if every
\* pass that finds a match moves lastIndex forward (exec is a function of
\* the regex, the text and lastIndex, so a pass that leaves lastIndex
\* where it was is repeated for ever)
C24_EveryPassAdvances ==
    [][(scan.pc = "exec" /\ scan'.pc = "exec")
           => scan'.lastIndex > scan.lastIndex]_vars

\* the spans of a and b have a character in common
Intersect(a, b) == a.start < b.end /\ b.start < a.end

RECURSIVE AtOnce(_, _, _)
AtOnce(text, matches, p) ==
    IF p >= Len(text) THEN <<>>
    ELSE IF \E i \in 1..Len(matches) : matches[i].start = p
         THEN LET i == CHOOSE k \in 1..Len(matches) : matches[k].start = p
              IN matches[i].label \o AtOnce(text, matches, matches[i].end)
         ELSE <<text[p + 1]>> \o AtOnce(text, matches, p + 1)

\* C26: for any text and any accepted pairwise non-overlapping matches,
\* applying the replacements one by one from the highest start to the
\* lowest yields the same string as replacing all spans at once, whatever
\* the lengths of the replacements
C26_RedactionEqualsAtOnce ==
    redactResult.done =>
        redactResult.redactedText
            = AtOnce(redactInput.text, redactInput.matches, 0)

\* a text has been redacted at two spans given lowest start first, the
\* first with a replacement longer and the second shorter than its span
C26_Witness ==
    /\ redactResult.done
    /\ Len(redactInput.matches) = 2
    /\ LET a == redactInput.matches[1]
           b == redactInput.matches[2]
       IN /\ a.start < b.start
          /\ Len(a.label) > a.end - a.start
          /\ Len(b.label) < b.end - b.start

\* the number of processJob invocations for job j that have not ended
TasksOf(j) ==
    LET mine == {r \in Running : r.job = j}
        RECURSIVE Count(_)
        Count(S) == IF S = {} THEN 0
                    ELSE LET r == CHOOSE x \in S : TRUE
                         IN CopiesIn(r, tasks) + Count(S \ {r})
    IN Count(mine)

\* C27: at most one task per job id is running at any time: processJob is
\* never launched for a job whose earlier task has not finished
C27_OneTaskPerJob == \A j \in JobIds : TasksOf(j) <= 1

\* C28: at most one scheduler loop is running at any time, however many
\* enqueue calls overlap, and the isProcessing flag is true exactly while
\* a loop is running, so it is false after a loop has ended, be it on an
\* empty result or on a query that threw
C28_OneLoopAndFlag ==
    /\ Len(loopRun.loops) <= 1
    /\ loopRun.isProcessing <=> (Len(loopRun.loops) = 1)

\* a loop has ended on a query that threw, a later enqueue call has
\* started the loop again and a further enqueue call is awaiting its
\* update
C28_Witness ==
    /\ loopRun.lastEnd = "query threw"
    /\ Len(loopRun.loops) = 1
    /\ loopRun.inflight > 0
    /\ loopRun.issued = MaxLoopEnqueues

\* the step is the end of a task of job j: its last write lands and it
\* emits 'completed' (from the final update) or 'failed' (from the catch
\* block)
TaskEmits(j, pc) ==
    \E r \in Running : r.job = j /\ r.pc = pc /\ tasks' = Finally(r)

\* the step is the landing of the update of a cancel(j) call, which then
\* emits 'cancelled'
CancelEmits(j) == cancels'[j] < cancels[j]

\* C29: for each launched job task at most one terminal event is emitted
\* for the job, and 'completed' is emitted only after the job's dataset
\* row exists and its status has been written as completed.  Stated for
\* the runs with one enqueue call and up to the first launch, in which
\* every job has had at most one task: no task emits after 'cancelled' was
\* emitted for its job, and 'cancelled' is not emitted after the task has
\* ended with its own event
C29_OneTerminalEventPerTask ==
    [][(nEnqueue' = 1 /\ launched' = 2) =>
         \A j \in JobIds :
             /\ (TaskEmits(j, "complete") \/ TaskEmits(j, "catch"))
                    => j \notin cancelReturned
             /\ CancelEmits(j) => \E r \in BagToSet(tasks') : r.job = j
             /\ TaskEmits(j, "complete")
                    => /\ rows'[j].status = "completed"
                       /\ CopiesIn([processingJobId |-> j], datasets') >= 1]_vars

\* C30: every launched job task ends with the job's persisted status
\* terminal and with the job id removed from the registry, whether its
\* database and blob-store calls return or throw: no task ends leaving
\* its job in processing status
C30_TaskEndsTerminal ==
    [][BagCardinality(tasks') < BagCardinality(tasks) =>
         \E r \in Running :
             /\ tasks' = Finally(r)
             /\ rows'[r.job].status \in Terminal
             /\ \A x \in BagToSet(tasks') : x.job = r.job => ~x.registered]_vars

====
